---- MODULE Spec2Model ----
(***************************************************************************)
(* Tendermint BFT consensus engine with round robin proof-of-authority     *)
(* (ethcore/src/engines/tendermint/mod.rs): the round/step state machine,  *)
(* the message dispatcher, the vote collector and the step timeout.        *)
(*                                                                         *)
(* Addresses, block hashes and signatures are small integers.  Byte        *)
(* strings are sequences: the RLP string header followed by the value the  *)
(* string carries.                                                         *)
(***************************************************************************)
EXTENDS Integers, Sequences, FiniteSets, TLC

VARIABLES validators, r, s, proposer_nonce, timeout, last,
          header, parent, lock, pc

vars == <<validators, r, s, proposer_nonce, timeout, last, header, parent, lock, pc>>

\* The engine proper, the block under verification, the threads.
verified == <<header, parent>>
threads == <<lock, pc>>

(***************************************************************************)
(* Bounds of the model.                                                    *)
(***************************************************************************)
MaxValidators == 4
MaxNonce == 4
MaxRound == 1
MaxHash == 2
MaxSealLen == 2
MaxHeaderSeal == 3
U256Bits == 3
MaxNumber == 1
MaxDifficulty == 1

(***************************************************************************)
(* Program constants.                                                      *)
(***************************************************************************)
RlpShortString == 128
RlpLongString == 183
H256Size == 32
H520Size == 65
ShortStringMax == 55
seal_fields == 2

Addresses == 1..(MaxValidators + 1)
BlockHashes == 1..MaxHash
Rounds == 0..MaxRound
StepTags == 0..3

\* our_params.validator_n: the size of the validator set.
validator_n == Len(validators)

\* The members of the validator sequence, as ProposeCollect's voter set.
ValidatorSet == {validators[i] : i \in 1..validator_n}

(***************************************************************************)
(* RLP encoding of a fixed-size value (BasicEncoder::emit_value): values   *)
(* of 2..55 bytes get the one-byte header 0x80+len, longer ones the header *)
(* 0xb7+1 followed by the length byte.                                     *)
(***************************************************************************)
encode(value, len) ==
    IF len <= ShortStringMax
    THEN <<RlpShortString + len, value>>
    ELSE <<RlpLongString + 1, len, value>>

\* message.at(2).as_raw(): the RLP item carrying the block hash.
as_raw(hash) == encode(hash, H256Size)

(***************************************************************************)
(* Step: the four variants of the enum.                                    *)
(***************************************************************************)
Propose == [kind |-> "Propose"]
Prevote(vote) == [kind |-> "Prevote", vote |-> vote]
Precommit(vote, seal) == [kind |-> "Precommit", vote |-> vote, seal |-> seal]
Commit(hash, seal) == [kind |-> "Commit", hash |-> hash, seal |-> seal]

(***************************************************************************)
(* ProposeCollect: the vote collector.                                     *)
(***************************************************************************)
ProposeCollect_new(hash, voters, thr) ==
    [hash |-> hash, voters |-> voters, threshold |-> thr, votes |-> {}]

\* vote(voter) returns whether the vote was newly counted ...
vote_counted(c, voter) == voter \notin c.votes

\* ... and records it.
vote(c, voter) == [c EXCEPT !.votes = @ \cup {voter}]

is_won(c) == Cardinality(c.votes) > c.threshold

(***************************************************************************)
(* The RwLock around the step.  A lock state is "free", "read" or "write"; *)
(* try_write succeeds only on a free lock, try_read unless it is written.  *)
(***************************************************************************)
Unlocked == "free"
try_write(held) == held = "free"
try_read(held) == held # "write"

(***************************************************************************)
(* Tendermint's private helpers.                                           *)
(***************************************************************************)
\* Faulty variant: the proposer never rotates.
proposer_first == validators[1]

proposer == validators[(proposer_nonce % validator_n) + 1]

is_proposer(address) == proposer = address

is_validator(address) == \E i \in 1..validator_n : validators[i] = address

\* Faulty variant: the division is done before the multiplication.
threshold_div_first == (validator_n \div 3) * 2

threshold == (validator_n * 2) \div 3

new_vote(proposal) == ProposeCollect_new(proposal, ValidatorSet, threshold)

(***************************************************************************)
(* Outcomes of a call: the result, the returned bytes and the step left    *)
(* behind.  "Panic" is the unwrap of a failed try_read/try_write.          *)
(***************************************************************************)
Outcome(result, ret, step) ==
    [result |-> result, ret |-> ret, s |-> step,
     r |-> r, proposer_nonce |-> proposer_nonce]
Ok(ret, step) == Outcome("Ok", ret, step)
Err(kind, step) == Outcome(kind, <<>>, step)

\* to_step under lock state `held`, the step being `cur`: the new step, or
\* a panic that leaves `cur`.
to_step(held, cur, step) ==
    IF try_write(held)
    THEN [panic |-> FALSE, s |-> step]
    ELSE [panic |-> TRUE, s |-> cur]

\* Faulty variant: an accepted proposal goes straight to Precommit.
to_prevote_skips(held, cur, proposal) ==
    to_step(held, cur, Precommit(new_vote(proposal), <<>>))

\* Faulty variant: the precommit collector targets the default block's hash.
to_precommit_default_hash(held, cur, proposal) ==
    to_step(held, cur, Precommit(new_vote(1), <<>>))

\* Faulty variant: the proposer's own vote is registered with the proposal.
to_prevote_votes(held, cur, proposal) ==
    to_step(held, cur, Prevote(vote(new_vote(proposal), proposer)))

to_prevote(held, cur, proposal) == to_step(held, cur, Prevote(new_vote(proposal)))

\* Faulty variant: the precommit collector starts from the prevotes.
to_precommit_keeps_votes(held, cur, proposal) ==
    to_step(held, cur,
            Precommit([new_vote(proposal) EXCEPT !.votes = cur.vote.votes], <<>>))

to_precommit(held, cur, proposal) ==
    to_step(held, cur, Precommit(new_vote(proposal), <<>>))

\* Faulty variant: Commit is entered from Precommit only.
to_commit_from_precommit(held, cur, block_hash, seal) ==
    IF cur.kind = "Precommit"
    THEN to_step(held, cur, Commit(block_hash, seal))
    ELSE [panic |-> FALSE, s |-> cur]

to_commit(held, cur, block_hash, seal) == to_step(held, cur, Commit(block_hash, seal))

\* Ok(ret) when the step write went through, the panic otherwise.
AfterStep(w, ret) == IF w.panic THEN Err("Panic", w.s) ELSE Ok(ret, w.s)

\* Faulty variant: the step is not checked.
propose_message_any_step(held, hash) ==
    IF ~try_read(held) THEN Err("Panic", s)
    ELSE AfterStep(to_prevote(held, s, hash), as_raw(hash))

\* Faulty variant: an accepted proposal also rotates the proposer.
propose_message_rotates(held, hash) ==
    IF ~try_read(held) THEN Err("Panic", s)
    ELSE IF s.kind # "Propose" THEN Err("WrongStep", s)
    ELSE [AfterStep(to_prevote(held, s, hash), as_raw(hash))
             EXCEPT !.proposer_nonce = proposer_nonce + 1]

propose_message(held, hash) ==
    IF ~try_read(held) THEN Err("Panic", s)
    ELSE IF s.kind # "Propose" THEN Err("WrongStep", s)
    ELSE AfterStep(to_prevote(held, s, hash), as_raw(hash))

\* Faulty variant: a prevote is also counted by the precommit collector.
prevote_message_in_precommit(held, sender, hash) ==
    IF ~try_write(held) THEN Err("Panic", s)
    ELSE IF s.kind \notin {"Prevote", "Precommit"} THEN Err("WrongStep", s)
    ELSE IF s.vote.hash # hash THEN Err("WrongVote", s)
    ELSE LET v == vote(s.vote, sender)
         IN  IF s.kind = "Precommit" THEN Ok(as_raw(hash), Precommit(v, s.seal))
             ELSE IF is_won(v)
             THEN AfterStep(to_precommit(held, Prevote(v), v.hash), as_raw(hash))
             ELSE Ok(as_raw(hash), Prevote(v))

\* Faulty variant: the vote is counted before the hash is compared.
prevote_message_vote_first(held, sender, hash) ==
    IF ~try_write(held) THEN Err("Panic", s)
    ELSE IF s.kind # "Prevote" THEN Err("WrongStep", s)
    ELSE LET v == vote(s.vote, sender)
         IN  IF s.vote.hash # hash THEN Err("WrongVote", Prevote(v))
             ELSE IF is_won(v)
             THEN AfterStep(to_precommit(held, Prevote(v), v.hash), as_raw(hash))
             ELSE Ok(as_raw(hash), Prevote(v))

\* Faulty variant: a prevote short of the quorum is answered with the bare
\* hash instead of the RLP item received.
prevote_message_bare_hash(held, sender, hash) ==
    IF ~try_write(held) THEN Err("Panic", s)
    ELSE IF s.kind # "Prevote" THEN Err("WrongStep", s)
    ELSE IF s.vote.hash # hash THEN Err("WrongVote", s)
    ELSE LET v == vote(s.vote, sender)
         IN  IF is_won(v)
             THEN AfterStep(to_precommit(held, Prevote(v), v.hash), as_raw(hash))
             ELSE Ok(<<hash>>, Prevote(v))

prevote_message(held, sender, hash) ==
    IF ~try_write(held) THEN Err("Panic", s)
    ELSE IF s.kind # "Prevote" THEN Err("WrongStep", s)
    ELSE IF s.vote.hash # hash THEN Err("WrongVote", s)
    ELSE LET v == vote(s.vote, sender)
         IN  IF is_won(v)
             \* the guard is dropped at the end of the let statement
             THEN AfterStep(to_precommit(held, Prevote(v), v.hash), as_raw(hash))
             ELSE Ok(as_raw(hash), Prevote(v))

\* Faulty variant: the vote is counted before the hash is compared.
precommit_message_vote_first(held, sender, signature, hash) ==
    IF ~try_write(held) THEN Err("Panic", s)
    ELSE IF s.kind # "Precommit" THEN Err("WrongStep", s)
    ELSE LET v == vote(s.vote, sender)
             seal == IF vote_counted(s.vote, sender)
                     THEN Append(s.seal, encode(signature, H520Size))
                     ELSE s.seal
             cur == Precommit(v, seal)
         IN  IF s.vote.hash # hash THEN Err("WrongVote", cur)
             ELSE IF is_won(v)
             THEN AfterStep(to_commit("write", cur, v.hash, seal), as_raw(hash))
             ELSE Ok(as_raw(hash), cur)

\* Faulty variant: the signature is pushed whether or not the vote was counted.
precommit_message_always_push(held, sender, signature, hash) ==
    IF ~try_write(held) THEN Err("Panic", s)
    ELSE IF s.kind # "Precommit" THEN Err("WrongStep", s)
    ELSE IF s.vote.hash # hash THEN Err("WrongVote", s)
    ELSE LET v == vote(s.vote, sender)
             seal == Append(s.seal, encode(signature, H520Size))
             cur == Precommit(v, seal)
         IN  IF is_won(v)
             THEN AfterStep(to_commit("write", cur, v.hash, seal), as_raw(hash))
             ELSE Ok(as_raw(hash), cur)

\* Faulty variant: the newest signature is put in front.
precommit_message_prepend(held, sender, signature, hash) ==
    IF ~try_write(held) THEN Err("Panic", s)
    ELSE IF s.kind # "Precommit" THEN Err("WrongStep", s)
    ELSE IF s.vote.hash # hash THEN Err("WrongVote", s)
    ELSE LET v == vote(s.vote, sender)
             seal == IF vote_counted(s.vote, sender)
                     THEN <<encode(signature, H520Size)>> \o s.seal
                     ELSE s.seal
             cur == Precommit(v, seal)
         IN  IF is_won(v)
             THEN AfterStep(to_commit("write", cur, v.hash, seal), as_raw(hash))
             ELSE Ok(as_raw(hash), cur)

\* Faulty variant: a late precommit for the committed hash extends the seal.
precommit_message_late(held, sender, signature, hash) ==
    IF ~try_write(held) THEN Err("Panic", s)
    ELSE IF s.kind = "Commit" /\ s.hash = hash
         THEN Ok(as_raw(hash),
                 Commit(s.hash, Append(s.seal, encode(signature, H520Size))))
    ELSE IF s.kind # "Precommit" THEN Err("WrongStep", s)
    ELSE IF s.vote.hash # hash THEN Err("WrongVote", s)
    ELSE LET v == vote(s.vote, sender)
             seal == IF vote_counted(s.vote, sender)
                     THEN Append(s.seal, encode(signature, H520Size))
                     ELSE s.seal
             cur == Precommit(v, seal)
         IN  IF is_won(v)
             THEN AfterStep(to_commit("write", cur, v.hash, seal), as_raw(hash))
             ELSE Ok(as_raw(hash), cur)

precommit_message(held, sender, signature, hash) ==
    IF ~try_write(held) THEN Err("Panic", s)
    ELSE IF s.kind # "Precommit" THEN Err("WrongStep", s)
    ELSE IF s.vote.hash # hash THEN Err("WrongVote", s)
    ELSE LET v == vote(s.vote, sender)
             seal == IF vote_counted(s.vote, sender)
                     THEN Append(s.seal, encode(signature, H520Size))
                     ELSE s.seal
             cur == Precommit(v, seal)
         IN  IF is_won(v)
             \* the write guard of the match is still held here
             THEN AfterStep(to_commit("write", cur, v.hash, seal), as_raw(hash))
             ELSE Ok(as_raw(hash), cur)

\* Faulty variant: the step tag is dispatched before the round is compared.
handle_message_tag_first(sender, signature, message) ==
    IF ~message.wf THEN Err("DecoderError", s)
    ELSE IF ~(\/ message.tag = 0 /\ is_proposer(sender)
              \/ message.tag \in {1, 2} /\ is_validator(sender))
         THEN Err("UnknownStep", s)
    ELSE IF r # message.round THEN Err("WrongRound", s)
    ELSE IF message.tag = 0 THEN propose_message(Unlocked, message.hash)
    ELSE IF message.tag = 1 THEN prevote_message(Unlocked, sender, message.hash)
    ELSE precommit_message(Unlocked, sender, signature, message.hash)

\* Faulty variant: votes are taken from any sender.
handle_message_any_voter(sender, signature, message) ==
    IF ~message.wf THEN Err("DecoderError", s)
    ELSE IF r # message.round THEN Err("WrongRound", s)
    ELSE IF message.tag = 0 /\ is_proposer(sender)
         THEN propose_message(Unlocked, message.hash)
    ELSE IF message.tag = 1
         THEN prevote_message(Unlocked, sender, message.hash)
    ELSE IF message.tag = 2
         THEN precommit_message(Unlocked, sender, signature, message.hash)
    ELSE Err("UnknownStep", s)

(***************************************************************************)
(* Engine::handle_message.                                                 *)
(***************************************************************************)
\* Faulty variant: every tag above 1 is taken for a Precommit.
handle_message_default_precommit(sender, signature, message) ==
    IF ~message.wf THEN Err("DecoderError", s)
    ELSE IF r # message.round THEN Err("WrongRound", s)
    ELSE IF message.tag = 0 /\ is_proposer(sender)
         THEN propose_message(Unlocked, message.hash)
    ELSE IF message.tag = 1 /\ is_validator(sender)
         THEN prevote_message(Unlocked, sender, message.hash)
    ELSE IF message.tag >= 2 /\ is_validator(sender)
         THEN precommit_message(Unlocked, sender, signature, message.hash)
    ELSE Err("UnknownStep", s)

handle_message(sender, signature, message) ==
    IF ~message.wf THEN Err("DecoderError", s)
    ELSE IF r # message.round THEN Err("WrongRound", s)
    ELSE IF message.tag = 0 /\ is_proposer(sender)
         THEN propose_message(Unlocked, message.hash)
    ELSE IF message.tag = 1 /\ is_validator(sender)
         THEN prevote_message(Unlocked, sender, message.hash)
    ELSE IF message.tag = 2 /\ is_validator(sender)
         THEN precommit_message(Unlocked, sender, signature, message.hash)
    ELSE Err("UnknownStep", s)

\* Faulty variant: the committed hash is not compared with the block's.
generate_seal_any_hash(held, block_hash) ==
    IF try_read(held) /\ s.kind = "Commit"
    THEN Outcome("Some", s.seal, s)
    ELSE Outcome("None", <<>>, s)

\* Engine::generate_seal for a block whose bare hash is block_hash.
generate_seal(held, block_hash) ==
    IF try_read(held) /\ s.kind = "Commit" /\ s.hash = block_hash
    THEN Outcome("Some", s.seal, s)
    ELSE Outcome("None", <<>>, s)

(***************************************************************************)
(* Header verification.  A header is its bare hash, seal, number,          *)
(* difficulty and gas limit.  A signature is named by the address it       *)
(* recovers to for the header's bare hash; signer 0 recovers to nothing.   *)
(***************************************************************************)
\* Faulty variant: a seal longer than expected is let through.
verify_block_basic_at_least(h) ==
    LET seal_length == Len(h.seal)
    IN  IF seal_length >= seal_fields
        THEN Ok(<<>>, s)
        ELSE Outcome("InvalidSealArity", <<seal_fields, seal_length>>, s)

verify_block_basic(h) ==
    LET seal_length == Len(h.seal)
    IN  IF seal_length = seal_fields
        THEN Ok(<<>>, s)
        ELSE Outcome("InvalidSealArity", <<seal_fields, seal_length>>, s)

\* UntrustedRlp::as_val::<H520>: the item must be a string of 65 bytes.
as_val_H520(b) ==
    IF Len(b) = 3 /\ b[1] = RlpLongString + 1 /\ b[2] = H520Size
    THEN [result |-> "Ok", value |-> b[3]]
    ELSE [result |-> "DecoderError", value |-> b]

\* public_to_address(recover(sig, hash)).
recover(sig, hash) ==
    IF sig.signer = 0
    THEN [result |-> "RecoverError", value |-> 0]
    ELSE [result |-> "Ok", value |-> sig.signer]

to_address(b, hash) ==
    LET sig == as_val_H520(b)
    IN  IF sig.result # "Ok" THEN [result |-> sig.result, value |-> 0]
        ELSE recover(sig.value, hash)

\* Faulty variant: every seal entry of a validator is counted.
verify_block_unordered_per_entry(h) ==
    LET seal == h.seal
        failed == {i \in 1..Len(seal) : to_address(seal[i], h.bare_hash).result # "Ok"}
        first == CHOOSE i \in failed : \A j \in failed : i <= j
        signed == {i \in 1..Len(seal) :
                      is_validator(to_address(seal[i], h.bare_hash).value)}
    IN  IF failed # {} THEN Err(to_address(seal[first], h.bare_hash).result, s)
        ELSE IF Cardinality(signed) <= threshold THEN Err("InvalidSeal", s)
        ELSE Ok(<<>>, s)

\* Faulty variant: as many validator signers as the threshold are enough.
verify_block_unordered_at_threshold(h) ==
    LET seal == h.seal
        failed == {i \in 1..Len(seal) : to_address(seal[i], h.bare_hash).result # "Ok"}
        first == CHOOSE i \in failed : \A j \in failed : i <= j
        seal_set == {to_address(seal[i], h.bare_hash).value : i \in 1..Len(seal)}
    IN  IF failed # {} THEN Err(to_address(seal[first], h.bare_hash).result, s)
        ELSE IF Cardinality(seal_set \cap ValidatorSet) < threshold
        THEN Err("InvalidSeal", s)
        ELSE Ok(<<>>, s)

verify_block_unordered(h) ==
    LET seal == h.seal
        failed == {i \in 1..Len(seal) : to_address(seal[i], h.bare_hash).result # "Ok"}
        \* collect stops at the first entry that fails
        first == CHOOSE i \in failed : \A j \in failed : i <= j
        seal_set == {to_address(seal[i], h.bare_hash).value : i \in 1..Len(seal)}
    IN  IF failed # {} THEN Err(to_address(seal[first], h.bare_hash).result, s)
        ELSE IF Cardinality(seal_set \cap ValidatorSet) <= threshold
        THEN Err("InvalidSeal", s)
        ELSE Ok(<<>>, s)

\* U256, scaled to U256Bits bits.  The sum of two U256 that does not fit
\* either aborts or wraps around.
U256Modulus == 2 ^ U256Bits
U256 == 0..(U256Modulus - 1)

u256_add(a, b, wraps) ==
    IF a + b < U256Modulus THEN [panic |-> FALSE, value |-> a + b]
    ELSE IF wraps THEN [panic |-> FALSE, value |-> (a + b) % U256Modulus]
    ELSE [panic |-> TRUE, value |-> 0]

\* The difference of two U256 that is below zero either aborts or wraps
\* around.
u256_sub(a, b, wraps) ==
    IF a >= b THEN [panic |-> FALSE, value |-> a - b]
    ELSE IF wraps THEN [panic |-> FALSE, value |-> (a - b) % U256Modulus]
    ELSE [panic |-> TRUE, value |-> 0]

min(a, b) == IF a <= b THEN a ELSE b
max(a, b) == IF a >= b THEN a ELSE b

\* Engine::populate_from_parent: the header h with the parent's difficulty
\* and a gas limit one step from the parent's towards gas_floor_target.
populate_from_parent(h, p, gas_floor_target, bound_divisor, wraps) ==
    LET gas_limit == p.gas_limit
        child(g) == [h EXCEPT !.difficulty = p.difficulty, !.gas_limit = g]
        aborted == [result |-> "Panic", header |-> [h EXCEPT !.difficulty = p.difficulty]]
    IN  \* a U256 division by zero aborts
        IF bound_divisor = 0 THEN aborted
        ELSE IF gas_limit < gas_floor_target
        THEN LET sum == u256_add(gas_limit, gas_limit \div bound_divisor, wraps)
                 less == u256_sub(sum.value, 1, wraps)
             IN  IF sum.panic \/ less.panic THEN aborted
                 ELSE [result |-> "Ok",
                       header |-> child(min(gas_floor_target, less.value))]
        ELSE LET diff == u256_sub(gas_limit, gas_limit \div bound_divisor, wraps)
                 more == u256_add(diff.value, 1, wraps)
             IN  IF diff.panic \/ more.panic THEN aborted
                 ELSE [result |-> "Ok",
                       header |-> child(max(gas_floor_target, more.value))]

\* Faulty variant: the bounds themselves are accepted.
verify_block_family_inclusive(h, p, gas_limit_bound_divisor, wraps) ==
    IF h.number = 0 THEN Outcome("RidiculousNumber", <<1, h.number>>, s)
    ELSE IF h.difficulty # p.difficulty
         THEN Outcome("InvalidDifficulty", <<p.difficulty, h.difficulty>>, s)
    ELSE IF gas_limit_bound_divisor = 0 THEN Err("Panic", s)
    ELSE LET min_gas == p.gas_limit - (p.gas_limit \div gas_limit_bound_divisor)
             sum == u256_add(p.gas_limit, p.gas_limit \div gas_limit_bound_divisor, wraps)
             max_gas == sum.value
         IN  IF sum.panic THEN Err("Panic", s)
             ELSE IF h.gas_limit < min_gas \/ h.gas_limit > max_gas
             THEN Outcome("InvalidGasLimit", <<min_gas, max_gas, h.gas_limit>>, s)
             ELSE Ok(<<>>, s)

verify_block_family(h, p, gas_limit_bound_divisor, wraps) ==
    IF h.number = 0 THEN Outcome("RidiculousNumber", <<1, h.number>>, s)
    ELSE IF h.difficulty # p.difficulty
         THEN Outcome("InvalidDifficulty", <<p.difficulty, h.difficulty>>, s)
    \* a U256 division by zero aborts
    ELSE IF gas_limit_bound_divisor = 0 THEN Err("Panic", s)
    ELSE LET min_gas == p.gas_limit - (p.gas_limit \div gas_limit_bound_divisor)
             sum == u256_add(p.gas_limit, p.gas_limit \div gas_limit_bound_divisor, wraps)
             max_gas == sum.value
         IN  IF sum.panic THEN Err("Panic", s)
             ELSE IF h.gas_limit <= min_gas \/ h.gas_limit >= max_gas
             THEN Outcome("InvalidGasLimit", <<min_gas, max_gas, h.gas_limit>>, s)
             ELSE Ok(<<>>, s)

(***************************************************************************)
(* Inputs.                                                                 *)
(***************************************************************************)
Messages ==
    [wf : {TRUE}, round : Rounds, tag : StepTags, hash : BlockHashes]
    \cup {[wf |-> FALSE, round |-> 0, tag |-> 0, hash |-> 1]}

\* The signature of `address`.  The network layer recovers the sender of a
\* message from its signature, so a message of `address` carries this one.
SignatureOf(address) == [signer |-> address]

\* to_commit is handed seals of up to MaxSealLen entries, signed by the first
\* validator or by an address that is never a validator.
SealSigners == {1, MaxValidators + 1}
EncodedSignatures == {encode(SignatureOf(a), H520Size) : a \in SealSigners}

RECURSIVE SeqsUpTo(_, _)
SeqsUpTo(S, k) ==
    IF k = 0 THEN {<<>>}
    ELSE LET shorter == SeqsUpTo(S, k - 1)
         IN  shorter \cup {Append(q, x) : q \in {p \in shorter : Len(p) = k - 1}, x \in S}

Seals == SeqsUpTo(EncodedSignatures, MaxSealLen)

\* A call that has run and whose result the caller has not yet taken: the
\* operation, its result, the bytes it returned and whether it changed the
\* step; for handle_message also whether the sender is a validator and the
\* step tag of the message.  Idle when no result is outstanding.
Call(op, out) ==
    [op |-> op, result |-> out.result, ret |-> out.ret, changed |-> out.s # s,
     validator |-> FALSE, tag |-> 0]

Idle == [op |-> "idle", result |-> "Ok", ret |-> <<>>, changed |-> FALSE,
         validator |-> FALSE, tag |-> 0]

(***************************************************************************)
(* Tendermint::new, for every validator set of 1..MaxValidators addresses. *)
(***************************************************************************)
TimeoutPropose == 1000

\* TendermintParams.timeouts: a configuration with one duration per step,
\* no two alike.
timeouts ==
    [propose |-> TimeoutPropose, prevote |-> TimeoutPropose + 1,
     precommit |-> TimeoutPropose + 2, commit |-> TimeoutPropose + 3]

\* next_timeout: the duration handed to the timer service is the timeout
\* field.
next_timeout == timeout

\* Header::default(): block 0 with no seal.
Header_default ==
    [bare_hash |-> 1, seal |-> <<>>, number |-> 0, difficulty |-> 0, gas_limit |-> 0]

\* Where the message thread is in its handle_message call: the step tag,
\* sender and hash of the message, and the step it is about to write.
MsgCall(at, tag, sender, hash, step) ==
    [at |-> at, tag |-> tag, sender |-> sender, hash |-> hash, step |-> step]

\* No thread is inside a call.
Quiet ==
    [msg |-> MsgCall("idle", 0, 0, 0, Propose), timer |-> "idle",
     seal |-> [at |-> "idle", hash |-> 0]]

new ==
    /\ validators \in {[i \in 1..n |-> i] : n \in 1..MaxValidators}
    /\ r = 0
    /\ s = Propose
    /\ proposer_nonce = 0
    /\ timeout = timeouts.propose
    /\ last = Idle
    /\ lock = Unlocked
    /\ pc = Quiet

Init ==
    /\ new
    /\ header = Header_default
    /\ parent = Header_default

HandleMessage(sender, signature, message) ==
    LET out == handle_message(sender, signature, message)
    IN  /\ last = Idle
        /\ s' = out.s
        /\ r' = out.r
        /\ proposer_nonce' = out.proposer_nonce
        /\ last' = [Call("handle_message", out)
                        EXCEPT !.validator = is_validator(sender),
                               !.tag = message.tag]
        /\ UNCHANGED <<validators, timeout, verified, threads>>

\* The public to_commit, called with the step lock free.
ToCommit(block_hash, seal) ==
    LET out == AfterStep(to_commit(Unlocked, s, block_hash, seal), <<>>)
    IN  /\ last = Idle
        /\ s' = out.s
        /\ last' = Call("to_commit", out)
        /\ UNCHANGED <<validators, r, proposer_nonce, timeout, verified, threads>>

GenerateSeal(block_hash) ==
    LET out == generate_seal(Unlocked, block_hash)
    IN  /\ last = Idle
        /\ s' = out.s
        /\ last' = Call("generate_seal", out)
        /\ UNCHANGED <<validators, r, proposer_nonce, timeout, verified, threads>>

\* Faulty variant: the proposer nonce is left alone.
to_propose_same_nonce(held, cur) == AfterStep(to_step(held, cur, Propose), <<>>)

\* Faulty variant: the proposer nonce is advanced by two.
to_propose_skips(held, cur) ==
    [AfterStep(to_step(held, cur, Propose), <<>>)
        EXCEPT !.proposer_nonce = proposer_nonce + 2]

\* to_propose: bump the proposer nonce, then enter Propose.
to_propose(held, cur) ==
    [AfterStep(to_step(held, cur, Propose), <<>>)
        EXCEPT !.proposer_nonce = proposer_nonce + 1]

\* Faulty variant: the round is not counted.
Timeout_same_round ==
    /\ last = Idle
    /\ proposer_nonce < MaxNonce
    /\ LET out == to_propose(Unlocked, s)
       IN  /\ proposer_nonce' = out.proposer_nonce
           /\ s' = out.s
           /\ last' = Call("timeout", out)
    /\ UNCHANGED <<validators, r, timeout, verified, threads>>

\* Faulty variant: a timeout outside Commit starts the rounds anew.
Timeout_round_reset ==
    /\ last = Idle
    /\ proposer_nonce < MaxNonce
    /\ s.kind = "Commit" => r < MaxRound
    /\ r' = IF s.kind = "Commit" THEN r + 1 ELSE 0
    /\ LET out == to_propose(Unlocked, s)
       IN  /\ proposer_nonce' = out.proposer_nonce
           /\ s' = out.s
           /\ last' = Call("timeout", out)
    /\ UNCHANGED <<validators, timeout, verified, threads>>

\* The step timer fires: a finished (committed) round is counted, and the
\* engine goes back to Propose with the next proposer.
Timeout ==
    /\ last = Idle
    /\ proposer_nonce < MaxNonce
    /\ s.kind = "Commit" => r < MaxRound
    /\ r' = IF s.kind = "Commit" THEN r + 1 ELSE r
    /\ LET out == to_propose(Unlocked, s)
       IN  /\ proposer_nonce' = out.proposer_nonce
           /\ s' = out.s
           /\ last' = Call("timeout", out)
    /\ UNCHANGED <<validators, timeout, verified, threads>>

\* The caller takes the result of the call; the engine awaits the next one.
Return ==
    /\ last # Idle
    /\ last' = Idle
    /\ UNCHANGED <<validators, r, s, proposer_nonce, timeout, verified, threads>>

Next ==
    \/ \E sender \in Addresses, message \in Messages :
          HandleMessage(sender, SignatureOf(sender), message)
    \/ \E block_hash \in BlockHashes, seal \in Seals : ToCommit(block_hash, seal)
    \/ \E block_hash \in BlockHashes : GenerateSeal(block_hash)
    \/ Timeout
    \/ Return

Spec == Init /\ [][Next]_vars

\* The timer runs on its own thread and fires whenever its deadline passes,
\* however many messages arrive meanwhile; every call returns.
LiveSpec == Init /\ [][Next]_vars /\ SF_vars(Timeout) /\ WF_vars(Return)

(***************************************************************************)
(* Header verification, as the import pipeline calls it: on an engine as   *)
(* constructed, for every header of the sets below.  A sealed header       *)
(* carries up to MaxHeaderSeal entries: signatures of validators and of    *)
(* strangers, a signature that does not recover, and a string that is not  *)
(* a signature.  to_commit is called with the header's hash and seal, as   *)
(* a node does that has seen the sealed block.                             *)
(***************************************************************************)
HeaderSealEntries ==
    {encode(SignatureOf(a), H520Size) : a \in Addresses \cup {0}}
       \cup {encode(SignatureOf(1), H256Size)}

SealedHeaders ==
    {[Header_default EXCEPT !.seal = q] : q \in SeqsUpTo(HeaderSealEntries, MaxHeaderSeal)}

FamilyHeaders ==
    {[Header_default EXCEPT !.number = n, !.difficulty = d, !.gas_limit = g] :
        n \in 0..MaxNumber, d \in 0..MaxDifficulty, g \in U256}

Parents ==
    {[Header_default EXCEPT !.difficulty = d, !.gas_limit = g] :
        d \in 0..MaxDifficulty, g \in U256}

VerifyInit ==
    /\ new
    /\ \/ header \in SealedHeaders /\ parent = Header_default
       \/ header \in FamilyHeaders /\ parent \in Parents

VerifyBlockBasic ==
    /\ last = Idle
    /\ last' = Call("verify_block_basic", verify_block_basic(header))
    /\ UNCHANGED <<validators, r, s, proposer_nonce, timeout, verified, threads>>

VerifyBlockUnordered ==
    /\ last = Idle
    /\ last' = Call("verify_block_unordered", verify_block_unordered(header))
    /\ UNCHANGED <<validators, r, s, proposer_nonce, timeout, verified, threads>>

VerifyBlockFamily(gas_limit_bound_divisor, wraps) ==
    /\ last = Idle
    /\ last' = Call("verify_block_family",
                    verify_block_family(header, parent, gas_limit_bound_divisor, wraps))
    /\ UNCHANGED <<validators, r, s, proposer_nonce, timeout, verified, threads>>

\* populate_from_parent fills in the header under verification from its
\* parent; the difficulty is set before the gas limit is computed.
PopulateFromParent(gas_floor_target, bound_divisor, wraps) ==
    LET out == populate_from_parent(header, parent, gas_floor_target, bound_divisor, wraps)
    IN  /\ last = Idle
        /\ header' = out.header
        /\ last' = [op |-> "populate_from_parent", result |-> out.result,
                    ret |-> <<>>, changed |-> FALSE, validator |-> FALSE, tag |-> 0]
        /\ UNCHANGED <<validators, r, s, proposer_nonce, timeout, parent, threads>>

VerifyNext ==
    \/ VerifyBlockBasic
    \/ VerifyBlockUnordered
    \/ \E gas_limit_bound_divisor \in U256, wraps \in BOOLEAN :
          VerifyBlockFamily(gas_limit_bound_divisor, wraps)
    \/ ToCommit(header.bare_hash, header.seal)
    \/ Return

VerifySpec == VerifyInit /\ [][VerifyNext]_vars

(***************************************************************************)
(* Block production: a new header, numbered after its parent, is filled in *)
(* by populate_from_parent and then verified against the parent.           *)
(***************************************************************************)
PopulateInit ==
    /\ new
    /\ parent \in Parents
    /\ header = [Header_default EXCEPT !.number = parent.number + 1]

PopulateNext ==
    \/ \E gas_floor_target \in U256, bound_divisor \in U256, wraps \in BOOLEAN :
          PopulateFromParent(gas_floor_target, bound_divisor, wraps)
    \/ \E gas_limit_bound_divisor \in U256, wraps \in BOOLEAN :
          VerifyBlockFamily(gas_limit_bound_divisor, wraps)
    \/ Return

PopulateSpec == PopulateInit /\ [][PopulateNext]_vars

(***************************************************************************)
(* Two threads on one engine: the message thread runs handle_message, the  *)
(* timer thread runs to_propose.  Each try_read/try_write, each release    *)
(* of a guard and each write of the step is a step of its thread; a thread *)
(* whose try-lock fails panics in unwrap ("lock_failed") and is gone.      *)
(***************************************************************************)
\* handle_message up to the call of a step handler: the message decodes, is
\* of the current round and its sender may send it.
MsgDispatch(sender, message) ==
    /\ pc.msg.at = "idle"
    /\ message.wf /\ message.round = r
    /\ \/ message.tag = 0 /\ is_proposer(sender)
       \/ message.tag \in {1, 2} /\ is_validator(sender)
    /\ pc' = [pc EXCEPT !.msg = MsgCall("acquire", message.tag, sender,
                                          message.hash, Propose)]
    /\ UNCHANGED <<validators, r, s, proposer_nonce, timeout, last, verified, lock>>

\* self.s.try_read().unwrap() of propose_message, self.s.try_write().unwrap()
\* of prevote_message and precommit_message.
MsgAcquire ==
    /\ pc.msg.at = "acquire"
    /\ IF pc.msg.tag = 0 THEN
          IF try_read(lock)
          THEN lock' = "read" /\ pc' = [pc EXCEPT !.msg.at = "holding"]
          ELSE lock' = lock /\ pc' = [pc EXCEPT !.msg.at = "lock_failed"]
       ELSE
          IF try_write(lock)
          THEN lock' = "write" /\ pc' = [pc EXCEPT !.msg.at = "holding"]
          ELSE lock' = lock /\ pc' = [pc EXCEPT !.msg.at = "lock_failed"]
    /\ UNCHANGED <<validators, r, s, proposer_nonce, timeout, last, verified>>

\* The match on the step, under the guard; the guard is dropped at its end.
\* A won prevote and an accepted proposal go on to to_step; a won precommit
\* calls to_step under its own guard and panics.
MsgBody ==
    /\ pc.msg.at = "holding"
    \* a read guard of generate_seal may still be out
    /\ lock' = IF pc.seal.at = "holding" THEN "read" ELSE Unlocked
    /\ LET m == pc.msg
           out == IF m.tag = 0 THEN propose_message(Unlocked, m.hash)
                  ELSE IF m.tag = 1 THEN prevote_message(Unlocked, m.sender, m.hash)
                  ELSE precommit_message(Unlocked, m.sender,
                                         SignatureOf(m.sender), m.hash)
       IN  IF out.result = "Panic"
           THEN s' = out.s /\ pc' = [pc EXCEPT !.msg.at = "panicked"]
           ELSE IF out.result = "Ok" /\ out.s.kind # s.kind
           THEN /\ s' = IF m.tag = 0 THEN s ELSE Prevote(vote(s.vote, m.sender))
                /\ pc' = [pc EXCEPT !.msg.at = "to_step", !.msg.step = out.s]
           ELSE s' = out.s /\ pc' = [pc EXCEPT !.msg = Quiet.msg]
    /\ UNCHANGED <<validators, r, proposer_nonce, timeout, last, verified>>

\* to_step: let mut guard = self.s.try_write().unwrap();
MsgToStep ==
    /\ pc.msg.at = "to_step"
    /\ IF try_write(lock)
       THEN lock' = "write" /\ pc' = [pc EXCEPT !.msg.at = "writing"]
       ELSE lock' = lock /\ pc' = [pc EXCEPT !.msg.at = "lock_failed"]
    /\ UNCHANGED <<validators, r, s, proposer_nonce, timeout, last, verified>>

\* to_step: *guard = step; and the guard goes out of scope.
MsgWrite ==
    /\ pc.msg.at = "writing"
    /\ s' = pc.msg.step
    /\ lock' = Unlocked
    /\ pc' = [pc EXCEPT !.msg = Quiet.msg]
    /\ UNCHANGED <<validators, r, proposer_nonce, timeout, last, verified>>

\* to_propose on the timer thread: the fetch_add on the nonce ...
TimerToPropose ==
    /\ pc.timer = "idle"
    /\ proposer_nonce < MaxNonce
    /\ proposer_nonce' = proposer_nonce + 1
    /\ pc' = [pc EXCEPT !.timer = "to_step"]
    /\ UNCHANGED <<validators, r, s, timeout, last, verified, lock>>

\* ... then to_step(Step::Propose): the try_write ...
TimerAcquire ==
    /\ pc.timer = "to_step"
    /\ IF try_write(lock)
       THEN lock' = "write" /\ pc' = [pc EXCEPT !.timer = "writing"]
       ELSE lock' = lock /\ pc' = [pc EXCEPT !.timer = "lock_failed"]
    /\ UNCHANGED <<validators, r, s, proposer_nonce, timeout, last, verified>>

\* ... and the write of the step.
TimerWrite ==
    /\ pc.timer = "writing"
    /\ s' = Propose
    /\ lock' = Unlocked
    /\ pc' = [pc EXCEPT !.timer = "idle"]
    /\ UNCHANGED <<validators, r, proposer_nonce, timeout, last, verified>>

ParNext ==
    \/ \E sender \in Addresses, message \in Messages : MsgDispatch(sender, message)
    \/ MsgAcquire
    \/ MsgBody
    \/ MsgToStep
    \/ MsgWrite
    \/ TimerToPropose
    \/ TimerAcquire
    \/ TimerWrite

ParSpec == Init /\ [][ParNext]_vars

(***************************************************************************)
(* The sealing thread calls generate_seal while the message thread handles *)
(* messages or calls the public to_commit.                                 *)
(***************************************************************************)
\* to_commit on the message thread, up to the try_write of to_step.
CommitToStep(block_hash, seal) ==
    /\ pc.msg.at = "idle"
    /\ pc' = [pc EXCEPT !.msg = MsgCall("to_step", 2, 0, block_hash,
                                          Commit(block_hash, seal))]
    /\ UNCHANGED <<validators, r, s, proposer_nonce, timeout, last, verified, lock>>

\* generate_seal: self.s.try_read(); a failed try yields None at once.
SealTryRead(block_hash) ==
    /\ pc.seal.at = "idle"
    /\ IF try_read(lock)
       THEN /\ lock' = "read"
            /\ pc' = [pc EXCEPT !.seal = [at |-> "holding", hash |-> block_hash]]
            /\ last' = last
       ELSE /\ lock' = lock
            /\ pc' = pc
            /\ last' = Call("generate_seal", generate_seal(lock, block_hash))
    /\ UNCHANGED <<validators, r, s, proposer_nonce, timeout, verified>>

\* generate_seal: the closure of and_then runs under the read guard, which
\* is dropped when it returns.
SealBody ==
    /\ pc.seal.at = "holding"
    /\ last' = Call("generate_seal", generate_seal(lock, pc.seal.hash))
    /\ lock' = IF pc.msg.at = "holding" /\ pc.msg.tag = 0 THEN "read" ELSE Unlocked
    /\ pc' = [pc EXCEPT !.seal = Quiet.seal]
    /\ UNCHANGED <<validators, r, s, proposer_nonce, timeout, verified>>

SealNext ==
    \/ \E sender \in Addresses, message \in Messages : MsgDispatch(sender, message)
    \/ MsgAcquire
    \/ MsgBody
    \/ MsgToStep
    \/ MsgWrite
    \/ \E block_hash \in BlockHashes, seal \in Seals : CommitToStep(block_hash, seal)
    \/ \E block_hash \in BlockHashes : SealTryRead(block_hash)
    \/ SealBody

SealSpec == Init /\ [][SealNext]_vars

(***************************************************************************)
(* The claims.  A message of `sender` is delivered with sender's           *)
(* signature; Handle is the outcome of delivering it in the current state. *)
(* Calls are made in the Ready states, so a claim about every call is      *)
(* stated of those; Return brings every state of the engine back to one.   *)
(***************************************************************************)
Ready == last = Idle

Msg(round, tag, hash) == [wf |-> TRUE, round |-> round, tag |-> tag, hash |-> hash]

Handle(sender, message) == handle_message(sender, SignatureOf(sender), message)

HandledBy(result) == last.op = "handle_message" /\ last.result = result

\* floor(n*2/3), by its defining inequalities.
FloorTwoThirds(n) == CHOOSE k \in 0..n : 3 * k <= 2 * n /\ 2 * n < 3 * (k + 1)

\* C1: in Precommit for hash h, a precommit for h from a validator that makes
\* the collector won returns Ok and leaves the step Commit(h, seal), seal
\* being the accumulated seal with this vote's signature.
C1_WonPrecommitCommits ==
    Ready =>
       \A sender \in Addresses :
          (/\ s.kind = "Precommit"
           /\ is_validator(sender)
           /\ is_won(vote(s.vote, sender))) =>
             LET out == Handle(sender, Msg(r, 2, s.vote.hash))
                 seal == IF vote_counted(s.vote, sender)
                         THEN Append(s.seal, encode(SignatureOf(sender), H520Size))
                         ELSE s.seal
             IN  /\ out.result = "Ok"
                 /\ out.s = Commit(s.vote.hash, seal)

\* C2: generate_seal(block) returns the stored seal exactly when the step is
\* Commit(h, seal) with h the block's bare hash, returns nothing in every
\* other case, and leaves the step as it is.
C2_GenerateSeal ==
    Ready =>
       \A block_hash \in BlockHashes :
          LET out == generate_seal(Unlocked, block_hash)
          IN  /\ out.result = "Some" <=> (s.kind = "Commit" /\ s.hash = block_hash)
              /\ out.result \in {"Some", "None"}
              /\ out.result = "Some" => out.ret = s.seal
              /\ out.result = "None" => out.ret = <<>>
              /\ out.s = s /\ out.r = r /\ out.proposer_nonce = proposer_nonce

C2_Witness ==
    /\ last.op = "generate_seal" /\ last.result = "Some"
    /\ Len(last.ret) = 2 /\ last.ret[1] # last.ret[2]
    /\ s.kind = "Commit" /\ s.seal = last.ret

C4_Scenario ==
    (Ready /\ validator_n = 4) =>
          /\ s.kind = "Propose" =>
                \A h \in BlockHashes :
                   Handle(proposer, Msg(r, 0, h)).s = Prevote(new_vote(h))
          /\ (s.kind = "Prevote" /\ Cardinality(s.vote.votes) = 1) =>
                \A sender \in ValidatorSet \ s.vote.votes :
                   Handle(sender, Msg(r, 1, s.vote.hash)).s.kind = "Precommit"
          /\ (s.kind = "Precommit" /\ Cardinality(s.vote.votes) = 1) =>
                \A sender \in ValidatorSet \ s.vote.votes :
                   LET out == Handle(sender, Msg(r, 2, s.vote.hash))
                   IN  /\ out.s.kind = "Commit"
                       /\ out.s.hash = s.vote.hash
                       /\ Len(out.s.seal) = 2
          /\ (s.kind = "Commit" /\ Len(s.seal) = 2) =>
                \A h \in BlockHashes :
                   generate_seal(Unlocked, h) =
                      IF h = s.hash THEN Outcome("Some", s.seal, s)
                      ELSE Outcome("None", <<>>, s)

\* C5: a well-formed message of a round other than the current one fails
\* with WrongRound in every step, for every step tag and every sender, and
\* leaves the step, the round and the proposer nonce unchanged.
C5_WrongRound ==
    Ready =>
       \A sender \in Addresses, message \in Messages :
          (message.wf /\ message.round # r) =>
             Handle(sender, message) = Err("WrongRound", s)

C5_Witness == HandledBy("WrongRound") /\ ~last.changed /\ s.kind = "Precommit"

\* C6: in Propose with nonce k a Propose of the current round succeeds
\* exactly for the sender validators[k mod n], any other sender fails and
\* leaves Propose, and to_propose moves the nonce to k+1 and the step to
\* Propose, where the same holds of validators[(k+1) mod n].
C6_OnlyProposer ==
    Ready =>
       /\ s.kind = "Propose" =>
             \A sender \in Addresses, h \in BlockHashes :
                LET out == Handle(sender, Msg(r, 0, h))
                    designated == validators[(proposer_nonce % validator_n) + 1]
                IN  /\ out.result = "Ok" <=> sender = designated
                    /\ sender = designated => out.s.kind = "Prevote"
                    /\ sender # designated => out.s = Propose
       /\ LET out == to_propose(Unlocked, s)
          IN  /\ out.proposer_nonce = proposer_nonce + 1
              /\ out.s = Propose
              /\ out.r = r

\* After a timeout the second validator's Propose has been accepted.
C6_Witness ==
    /\ validator_n >= 2 /\ proposer_nonce = 1 /\ proposer = validators[2]
    /\ HandledBy("Ok") /\ last.changed
    /\ s.kind = "Prevote" /\ s.vote.votes = {}

\* C7: a Prevote handled in Prevote, or a Precommit handled in Precommit,
\* for a hash other than the collector's fails with WrongVote and leaves the
\* step, with its collector and seal, unchanged.
C7_WrongVote ==
    Ready =>
       \A sender \in ValidatorSet, h \in BlockHashes :
          /\ (s.kind = "Prevote" /\ h # s.vote.hash) =>
                /\ Handle(sender, Msg(r, 1, h)) = Err("WrongVote", s)
                /\ prevote_message(Unlocked, sender, h) = Err("WrongVote", s)
          /\ (s.kind = "Precommit" /\ h # s.vote.hash) =>
                /\ Handle(sender, Msg(r, 2, h)) = Err("WrongVote", s)
                /\ precommit_message(Unlocked, sender, SignatureOf(sender), h)
                      = Err("WrongVote", s)

C7_Witness ==
    /\ HandledBy("WrongVote") /\ ~last.changed
    /\ s.kind = "Precommit" /\ s.vote.votes # {} /\ s.seal # <<>>

\* C8: a vote of a validator the collector has already counted in this step
\* changes neither the tally nor the seal nor the step.
C8_RepeatedVote ==
    Ready =>
       /\ s.kind = "Prevote" =>
             \A sender \in s.vote.votes :
                /\ ~is_won(s.vote)
                /\ Handle(sender, Msg(r, 1, s.vote.hash)).s = s
       /\ s.kind = "Precommit" =>
             \A sender \in s.vote.votes :
                Handle(sender, Msg(r, 2, s.vote.hash)).s = s

\* A vote was accepted in Precommit without changing the step: a repeat.
C8_Witness ==
    /\ HandledBy("Ok") /\ ~last.changed
    /\ s.kind = "Precommit" /\ Cardinality(s.vote.votes) = 1
    /\ validator_n = 4

\* C9: a Propose of the current round from the designated proposer succeeds
\* only in Propose; in every other step it fails with WrongStep and leaves
\* the step unchanged.
C9_ProposeWrongStep ==
    Ready =>
       \A h \in BlockHashes :
          LET out == Handle(proposer, Msg(r, 0, h))
          IN  /\ out.result = "Ok" <=> s.kind = "Propose"
              /\ s.kind # "Propose" => out = Err("WrongStep", s)

C9_Witness ==
    /\ HandledBy("WrongStep") /\ ~last.changed
    /\ s.kind = "Commit"

\* C10: a validator's Prevote outside Prevote and a validator's Precommit
\* outside Precommit fail with WrongStep and change nothing.
C10_VoteWrongStep ==
    Ready =>
       \A sender \in ValidatorSet, h \in BlockHashes :
          /\ s.kind # "Prevote" => Handle(sender, Msg(r, 1, h)) = Err("WrongStep", s)
          /\ s.kind # "Precommit" => Handle(sender, Msg(r, 2, h)) = Err("WrongStep", s)
          /\ Handle(sender, Msg(r, 1, h)).result \in {"Ok", "Panic"} => s.kind = "Prevote"
          /\ Handle(sender, Msg(r, 2, h)).result \in {"Ok", "Panic"} => s.kind = "Precommit"

\* Only a vote can have failed with WrongStep in Propose.
C10_Witness == HandledBy("WrongStep") /\ ~last.changed /\ s.kind = "Propose"

\* C11: a Prevote or Precommit of a sender outside the validator set is
\* rejected before any vote is counted: the step, with its collector and
\* seal, stays as it is, and every counted voter is a validator.
C11_IneligibleVoter ==
    /\ s.kind \in {"Prevote", "Precommit"} => s.vote.votes \subseteq ValidatorSet
    /\ Ready =>
          \A sender \in Addresses \ ValidatorSet, message \in Messages :
             message.tag \in {1, 2} =>
                LET out == Handle(sender, message)
                IN  /\ out.s = s
                    /\ out.result \in {"DecoderError", "WrongRound", "UnknownStep"}
                    /\ (message.wf /\ message.round = r) =>
                          out = Err("UnknownStep", s)

\* A stranger's Precommit was turned away while votes were being collected.
C11_Witness ==
    /\ HandledBy("UnknownStep") /\ ~last.changed
    /\ last.tag = 2 /\ ~last.validator
    /\ s.kind = "Precommit" /\ s.vote.votes # {} /\ s.seal # <<>>

\* C12: a handle_message call that returns an error leaves the step (variant,
\* collector, hash, seal), the round and the proposer nonce as they were.
ErrorKinds == {"DecoderError", "WrongRound", "WrongStep", "WrongVote", "UnknownStep"}

C12_ErrorsChangeNothing ==
    Ready =>
       \A sender \in Addresses, message \in Messages :
          LET out == Handle(sender, message)
          IN  /\ out.result \in ErrorKinds \cup {"Ok", "Panic"}
              /\ out.result \in ErrorKinds =>
                    /\ out.s = s
                    /\ out.r = r
                    /\ out.proposer_nonce = proposer_nonce
                    /\ out.ret = <<>>

\* A malformed message arrived in Prevote, a vote being already counted.
C12_Witness ==
    /\ HandledBy("DecoderError") /\ ~last.changed
    /\ s.kind = "Prevote" /\ s.vote.votes # {}

\* C13: called one after the other, handle_message, to_propose, to_commit
\* and generate_seal never find the step lock held: no call panics.
C13_NoLockFailure ==
    /\ last.result # "Panic"
    /\ Ready =>
          /\ \A sender \in Addresses, message \in Messages :
                Handle(sender, message).result # "Panic"
          /\ to_propose(Unlocked, s).result # "Panic"
          /\ \A block_hash \in BlockHashes, seal \in Seals :
                ~to_commit(Unlocked, s, block_hash, seal).panic

\* C14: while the engine waits in Propose with nonce k and the proposer stays
\* silent (the step stays Propose), the timer eventually brings the engine
\* to Propose with nonce k+1 in the same round; with 2 or more validators
\* the proposer is then another validator, whose Propose for that round is
\* accepted.
C14_SilentProposer ==
    \A k \in 0..(MaxNonce - 1), round \in Rounds :
       (s.kind = "Propose" /\ proposer_nonce = k /\ r = round)
          ~> \/ s.kind # "Propose"
             \/ /\ s.kind = "Propose" /\ proposer_nonce = k + 1 /\ r = round
                /\ validator_n >= 2 =>
                      /\ proposer # validators[(k % validator_n) + 1]
                      /\ \A h \in BlockHashes :
                            LET out == Handle(proposer, Msg(round, 0, h))
                            IN  out.result = "Ok" /\ out.s = Prevote(new_vote(h))

\* After one timeout the second of two validators has proposed in round 0.
C14_Witness ==
    /\ validator_n = 2 /\ proposer_nonce = 1 /\ r = 0
    /\ proposer = validators[2]
    /\ HandledBy("Ok") /\ last.tag = 0 /\ last.changed
    /\ s.kind = "Prevote"

C16_ToCommit ==
    /\ Ready =>
          \A block_hash \in BlockHashes, seal \in Seals :
             LET out == AfterStep(to_commit(Unlocked, s, block_hash, seal), <<>>)
             IN  /\ out.result = "Ok"
                 /\ out.s = Commit(block_hash, seal)
                 /\ out.r = r
                 /\ out.proposer_nonce = proposer_nonce
    /\ last.op = "to_commit" =>
          /\ s.kind = "Commit"
          /\ generate_seal(Unlocked, s.hash) = Outcome("Some", s.seal, s)

\* to_commit was called with a seal of two entries on an engine that had
\* gone through a timeout.
C16_Witness ==
    /\ last.op = "to_commit" /\ last.result = "Ok" /\ last.changed
    /\ s.kind = "Commit" /\ Len(s.seal) = 2
    /\ proposer_nonce = 1 /\ r = 0

\* C17: verify_block_basic succeeds exactly for a seal of 2 entries and
\* fails with InvalidSealArity{expected 2, found c} for every other count c,
\* whatever the validator set and the step.
C17_SealArity ==
    LET out == verify_block_basic(header)
        c == Len(header.seal)
    IN  /\ out.result = "Ok" <=> c = 2
        /\ c = 2 => out = Ok(<<>>, s)
        /\ c # 2 => out = Outcome("InvalidSealArity", <<2, c>>, s)

\* A seal of three entries was refused by an engine in Commit.
C17_Witness ==
    /\ last.op = "verify_block_basic" /\ last.result = "InvalidSealArity"
    /\ last.ret = <<2, 3>>
    /\ s.kind = "Commit" /\ validator_n = 4

\* C18: verify_block_unordered succeeds exactly when every seal entry
\* recovers to a signer and more than floor(n*2/3) distinct validators are
\* among the signers; otherwise it fails with InvalidSeal, or with the error
\* of an entry that does not recover.
C18_SealQuorum ==
    LET out == verify_block_unordered(header)
        entries == 1..Len(header.seal)
        SignedBy(i, a) == header.seal[i] = encode(SignatureOf(a), H520Size)
        recovered == \A i \in entries : \E a \in Addresses : SignedBy(i, a)
        signers == {a \in ValidatorSet : \E i \in entries : SignedBy(i, a)}
        quorum == Cardinality(signers) > FloorTwoThirds(validator_n)
    IN  /\ out.result = "Ok" <=> (recovered /\ quorum)
        /\ (recovered /\ ~quorum) => out = Err("InvalidSeal", s)
        /\ ~recovered => out.result \in {"DecoderError", "RecoverError"}
        /\ out.s = s

\* Three validators: a seal of three validator signatures, two of them by
\* the same validator, was refused.
C18_Witness ==
    /\ last.op = "verify_block_unordered" /\ last.result = "InvalidSeal"
    /\ validator_n = 3 /\ Len(header.seal) = 3
    /\ \A i \in 1..3 : \E a \in ValidatorSet :
          header.seal[i] = encode(SignatureOf(a), H520Size)
    /\ header.seal[1] = header.seal[2] /\ header.seal[2] # header.seal[3]

\* The outcome C19 gives for divisor d, p - p/d and p + p/d being the
\* integers.
FamilyRule(d) ==
    LET p == parent.gas_limit
        g == header.gas_limit
    IN  IF header.number = 0 THEN Outcome("RidiculousNumber", <<1, 0>>, s)
        ELSE IF header.difficulty # parent.difficulty
             THEN Outcome("InvalidDifficulty",
                          <<parent.difficulty, header.difficulty>>, s)
        ELSE IF g <= p - (p \div d) \/ g >= p + (p \div d)
             THEN Outcome("InvalidGasLimit", <<p - (p \div d), p + (p \div d), g>>, s)
        ELSE Ok(<<>>, s)

C20_NoContention ==
    /\ pc.msg.at # "lock_failed"
    /\ pc.timer # "lock_failed"

\* C21: a message-driven transition is atomic for the other thread: when the
\* message thread writes the successor step, the step is still the one its
\* handler checked (Propose for a proposal, a won Prevote for a prevote).
C21_AtomicTransition ==
    pc.msg.at = "writing" =>
       /\ pc.msg.tag = 0 => s = Propose
       /\ pc.msg.tag = 1 =>
             /\ s.kind = "Prevote"
             /\ s.vote.hash = pc.msg.hash
             /\ is_won(s.vote)

\* C22 as stated: every change of the step's kind is Propose->Prevote,
\* Prevote->Precommit, Precommit->Commit, or a reset to Propose by a timeout.
C22_ForwardOnly ==
    [][s'.kind # s.kind =>
          \/ s.kind = "Propose" /\ s'.kind = "Prevote"
          \/ s.kind = "Prevote" /\ s'.kind = "Precommit"
          \/ s.kind = "Precommit" /\ s'.kind = "Commit"
          \/ last'.op = "timeout" /\ s' = Propose
      ]_vars

\* C22: handle_message changes the step's kind only from Propose to Prevote,
\* from Prevote to Precommit or from Precommit to Commit; to_commit enters
\* Commit from any step; a timeout resets every step to Propose; nothing
\* else changes the kind.
C22_Transitions ==
    [][s'.kind # s.kind =>
          \/ /\ last'.op = "handle_message"
             /\ \/ s.kind = "Propose" /\ s'.kind = "Prevote"
                \/ s.kind = "Prevote" /\ s'.kind = "Precommit"
                \/ s.kind = "Precommit" /\ s'.kind = "Commit"
          \/ last'.op = "to_commit" /\ s'.kind = "Commit"
          \/ last'.op = "timeout" /\ s' = Propose
      ]_vars

\* to_commit has taken an engine that had only accepted a proposal to Commit.
C22_Witness ==
    /\ last.op = "to_commit" /\ last.changed
    /\ s.kind = "Commit" /\ s.seal = <<>>
    /\ proposer_nonce = 0 /\ r = 0

\* C23: a message that enters Prevote or Precommit leaves a collector with
\* no counted voter and, in Precommit, an empty seal, whatever was counted
\* before; in Precommit every validator not yet counted there, whether it
\* prevoted or not, gets its precommit counted once.
C23_FreshCollector ==
    Ready =>
       \A sender \in Addresses, message \in Messages :
          LET out == Handle(sender, message)
          IN  /\ (out.s.kind = "Prevote" /\ s.kind # "Prevote") =>
                    out.s = Prevote(new_vote(message.hash)) /\ out.s.vote.votes = {}
              /\ (out.s.kind = "Precommit" /\ s.kind # "Precommit") =>
                    /\ s.kind = "Prevote"
                    /\ out.s = Precommit(new_vote(message.hash), <<>>)
                    /\ out.s.vote.votes = {}
              /\ (/\ s.kind = "Precommit"
                  /\ message = Msg(r, 2, s.vote.hash)
                  /\ sender \in ValidatorSet \ s.vote.votes) =>
                    /\ out.s.kind = "Precommit"
                    /\ out.s.vote.votes = s.vote.votes \cup {sender}
                    /\ Len(out.s.seal) = Len(s.seal) + 1

\* Four validators, three of which prevoted to get here: the second
\* precommit has been counted.
C23_Witness ==
    /\ validator_n = 4
    /\ HandledBy("Ok") /\ last.tag = 2 /\ last.changed
    /\ s.kind = "Precommit" /\ Cardinality(s.vote.votes) = 2

\* The validators whose signatures make up a seal, in the seal's order.
RECURSIVE SealSignersOf(_)
SealSignersOf(seal) ==
    IF seal = <<>> THEN <<>>
    ELSE <<as_val_H520(Head(seal)).value.signer>> \o SealSignersOf(Tail(seal))

\* C24: in Precommit the seal has one entry for each counted validator and
\* no other; a precommit of a validator not yet counted appends its
\* signature at the end, keeping the earlier entries in place, and a
\* precommit of a counted validator appends nothing.
C24_SealMatchesVotes ==
    s.kind = "Precommit" =>
       LET signers == SealSignersOf(s.seal)
       IN  /\ Len(s.seal) = Cardinality(s.vote.votes)
           /\ {signers[i] : i \in 1..Len(signers)} = s.vote.votes
           /\ Ready =>
                 \A sender \in ValidatorSet :
                    LET out == Handle(sender, Msg(r, 2, s.vote.hash))
                    IN  IF sender \in s.vote.votes
                        THEN out.s = s
                        ELSE out.s.seal =
                                Append(s.seal, encode(SignatureOf(sender), H520Size))

\* Four validators: two precommits have been counted, the later one last.
C24_Witness ==
    /\ validator_n = 4 /\ s.kind = "Precommit"
    /\ HandledBy("Ok") /\ last.tag = 2 /\ last.changed
    /\ Len(s.seal) = 2 /\ s.seal[1] # s.seal[2]
    /\ SealSignersOf(s.seal) = <<validators[3], validators[1]>>

\* C25: in Commit(h, seal) every handle_message call fails and leaves h and
\* the seal as they are; generate_seal leaves them too; they change only by
\* to_commit or by the timeout's to_propose.
C25_CommitFrozen ==
    /\ (Ready /\ s.kind = "Commit") =>
          /\ \A sender \in Addresses, message \in Messages :
                LET out == Handle(sender, message)
                IN  out.s = s /\ out.result \in ErrorKinds
          /\ \A block_hash \in BlockHashes : generate_seal(Unlocked, block_hash).s = s
    /\ (last.op \in {"handle_message", "generate_seal"} /\ s.kind = "Commit") =>
          ~last.changed

\* A validator's Precommit came too late: the engine had committed.
C25_Witness ==
    /\ HandledBy("WrongStep") /\ last.tag = 2 /\ last.validator
    /\ s.kind = "Commit" /\ Len(s.seal) = 1

\* C26: the timeout resets the engine only in the step in which its
\* deadline was armed.  Deadlines are armed at construction and after each
\* timeout, the step being Propose; a message or to_commit has changed
\* the step since exactly when the step is no longer Propose.
C26_NoStaleTimeout ==
    [][last'.op = "timeout" => s.kind = "Propose"]_vars

\* Position of a validator in the validator set (addresses are distinct).
IndexOf(address) == CHOOSE i \in 1..validator_n : validators[i] = address

\* C27: to_propose adds exactly one to the proposer nonce and enters
\* Propose, nothing else changes the nonce, and each to_propose moves the
\* proposer to the next validator in validator-set order, the first one
\* following the last, so that n calls in a row designate each validator once.
C27_RoundRobin ==
    [][/\ proposer_nonce' # proposer_nonce => last'.op = "timeout"
       /\ last'.op = "timeout" =>
             /\ proposer_nonce' = proposer_nonce + 1
             /\ s' = Propose
             /\ IndexOf(proposer') = (IndexOf(proposer) % validator_n) + 1
      ]_vars

\* Four validators, four timeouts: the first validator proposes again.
C27_Witness ==
    /\ validator_n = 4 /\ proposer_nonce = 4
    /\ last.op = "timeout" /\ s = Propose
    /\ proposer = validators[1]

\* C28: the round never decreases.
C28_RoundMonotone == [][r' >= r]_vars

\* A timeout in Commit has just taken the round to its highest value.
C28_Witness ==
    /\ last.op = "timeout" /\ last.changed
    /\ r = MaxRound /\ s = Propose /\ proposer_nonce = MaxRound

\* C29: handle_message changes neither the round nor the proposer nonce,
\* whatever it returns and whatever it does to the step; the nonce and the
\* round change only when the timer fires (to_propose, the round count).
C29_HandleKeepsRoundAndNonce ==
    [][/\ last'.op = "handle_message" =>
             r' = r /\ proposer_nonce' = proposer_nonce
       /\ (r' # r \/ proposer_nonce' # proposer_nonce) => last'.op = "timeout"
      ]_vars

\* In round 1, after two timeouts, a prevote has taken the engine to
\* Precommit.
C29_Witness ==
    /\ HandledBy("Ok") /\ last.tag = 1 /\ last.changed
    /\ s.kind = "Precommit" /\ r = 1 /\ proposer_nonce = 2

step_timeout(step) ==
    CASE step.kind = "Propose" -> timeouts.propose
      [] step.kind = "Prevote" -> timeouts.prevote
      [] step.kind = "Precommit" -> timeouts.precommit
      [] step.kind = "Commit" -> timeouts.commit

\* C31: the duration of the outstanding deadline is the configured
\* duration of the current step.
C31_StepDeadline == next_timeout = step_timeout(s)

\* C32: every handle_message call that returns Ok returns the RLP item of
\* the message that carries the block hash, byte for byte: the string
\* header for 32 bytes followed by the hash.
C32_ReturnsPayload ==
    /\ Ready =>
          \A sender \in Addresses, message \in Messages :
             LET out == Handle(sender, message)
             IN  out.result = "Ok" =>
                    /\ out.ret = as_raw(message.hash)
                    /\ out.ret = <<RlpShortString + H256Size, message.hash>>
    /\ HandledBy("Ok") =>
          /\ s.kind \in {"Prevote", "Precommit"}
          /\ last.ret = <<RlpShortString + H256Size, s.vote.hash>>

\* A repeated Prevote for hash 2, short of the quorum, was answered with the
\* item received.
C32_Witness ==
    /\ HandledBy("Ok") /\ last.tag = 1 /\ ~last.changed
    /\ s.kind = "Prevote" /\ s.vote.hash = 2
    /\ last.ret = <<160, 2>>

\* C33: a message of the current round whose step tag is none of 0, 1, 2
\* fails with UnknownStep whoever sent it and whatever the step, and leaves
\* the step, the round and the proposer nonce as they were.
C33_UnknownStep ==
    Ready =>
       \A sender \in Addresses, tag \in StepTags \ {0, 1, 2}, hash \in BlockHashes :
          Handle(sender, Msg(r, tag, hash)) = Err("UnknownStep", s)

\* A validator's message with tag 3 was refused while precommits were
\* being collected.
C33_Witness ==
    /\ HandledBy("UnknownStep") /\ last.tag = 3 /\ last.validator
    /\ ~last.changed
    /\ s.kind = "Precommit" /\ s.seal # <<>>

\* C34: the hash the engine works on is the one of the latest accepted
\* Propose.  A message enters Prevote only from Propose, only when sent by
\* the designated proposer, and the collector then targets the hash of that
\* message; every later message keeps the hash: Prevote to Prevote, Prevote
\* to Precommit, Precommit to Precommit and Precommit to Commit.
C34_ProposedHash ==
    Ready =>
       \A sender \in Addresses, message \in Messages :
          LET out == Handle(sender, message)
          IN  /\ (out.s.kind = "Prevote" /\ s.kind # "Prevote") =>
                    /\ s.kind = "Propose" /\ message.tag = 0
                    /\ sender = proposer
                    /\ out.result = "Ok" /\ out.ret = as_raw(message.hash)
                    /\ out.s.vote.hash = message.hash
              /\ (out.s.kind = "Prevote" /\ s.kind = "Prevote") =>
                    out.s.vote.hash = s.vote.hash
              /\ out.s.kind = "Precommit" =>
                    /\ s.kind \in {"Prevote", "Precommit"}
                    /\ out.s.vote.hash = s.vote.hash
              /\ (out.s.kind = "Commit" /\ s.kind # "Commit") =>
                    /\ s.kind = "Precommit"
                    /\ out.s.hash = s.vote.hash
              /\ out.s.kind = "Propose" => s.kind = "Propose"

\* After a timeout the second proposer's hash 2 has gone through Prevote
\* into Precommit.
C34_Witness ==
    /\ HandledBy("Ok") /\ last.tag = 1 /\ last.changed
    /\ s.kind = "Precommit" /\ s.vote.hash = 2
    /\ proposer_nonce = 1 /\ r = 0 /\ validator_n = 2

\* C35: the first precommit that makes the collector won takes the engine
\* to Commit with a seal of exactly threshold + 1 entries, signed by
\* threshold + 1 distinct validators.
C35_CommitSealSize ==
    Ready =>
       \A sender \in ValidatorSet :
          (/\ s.kind = "Precommit"
           /\ ~is_won(s.vote)
           /\ is_won(vote(s.vote, sender))) =>
             LET out == Handle(sender, Msg(r, 2, s.vote.hash))
             IN  /\ out.s.kind = "Commit"
                 /\ Len(out.s.seal) = threshold + 1
                 /\ Cardinality({SealSignersOf(out.s.seal)[i] :
                                    i \in 1..Len(out.s.seal)}) = threshold + 1
                 /\ \A i \in 1..Len(out.s.seal) :
                       SealSignersOf(out.s.seal)[i] \in ValidatorSet

\* C36: the precommit that makes the collector won commits the block with
\* the accumulated seal, and the committed block's header carrying that
\* seal passes verify_block_basic and verify_block_unordered.
C36_AccumulatedSealVerifies ==
    Ready =>
       \A sender \in ValidatorSet :
          (s.kind = "Precommit" /\ is_won(vote(s.vote, sender))) =>
             LET out == Handle(sender, Msg(r, 2, s.vote.hash))
                 sealed == [Header_default EXCEPT !.bare_hash = s.vote.hash,
                                                  !.seal = out.s.seal]
             IN  /\ out.s.kind = "Commit"
                 /\ out.s.hash = sealed.bare_hash
                 /\ verify_block_basic(sealed).result = "Ok"
                 /\ verify_block_unordered(sealed).result = "Ok"

\* C37: with three or more validators the threshold is at least 2, and a
\* header that passes verify_block_basic fails verify_block_unordered with
\* InvalidSeal or with the error of an entry that does not yield a signer;
\* a header passes both checks only with one or two validators, where the
\* header sealed by the first and the last validator does pass both.
C37_TwoEntriesNeverEnough ==
    LET basic == verify_block_basic(header).result
        unordered == verify_block_unordered(header).result
        both == [Header_default EXCEPT
                    !.seal = <<encode(SignatureOf(validators[1]), H520Size),
                               encode(SignatureOf(validators[validator_n]), H520Size)>>]
    IN  /\ validator_n >= 3 =>
              /\ threshold >= 2
              /\ basic = "Ok" =>
                    unordered \in {"InvalidSeal", "DecoderError", "RecoverError"}
        /\ (basic = "Ok" /\ unordered = "Ok") => validator_n <= 2
        /\ validator_n <= 2 =>
              /\ verify_block_basic(both).result = "Ok"
              /\ verify_block_unordered(both).result = "Ok"

\* Three validators: a header sealed by two of them, which passes
\* verify_block_basic, has been refused by verify_block_unordered.
C37_Witness ==
    /\ validator_n = 3
    /\ last.op = "verify_block_unordered" /\ last.result = "InvalidSeal"
    /\ verify_block_basic(header).result = "Ok"
    /\ header.seal = <<encode(SignatureOf(validators[1]), H520Size),
                       encode(SignatureOf(validators[2]), H520Size)>>

\* C38: for every parent and every gas floor target (and every bound
\* divisor d >= 1), populate_from_parent completes without underflow or
\* overflow and leaves a header with the parent's difficulty and a gas
\* limit strictly between p - p/d and p + p/d, which verify_block_family
\* accepts.
C38_PopulatedHeaderVerifies ==
    \A gas_floor_target \in U256, d \in U256 \ {0}, wraps \in BOOLEAN :
       LET out == populate_from_parent(header, parent, gas_floor_target, d, wraps)
           p == parent.gas_limit
           g == out.header.gas_limit
       IN  /\ out.result = "Ok"
           /\ out.header.difficulty = parent.difficulty
           /\ p - (p \div d) < g /\ g < p + (p \div d)
           /\ verify_block_family(out.header, parent, d, wraps).result = "Ok"

\* C39: generate_seal tried while the step is write-locked returns None
\* without failing and without touching the step, and the read guard of
\* generate_seal never makes a try-lock of another thread fail.
C39_SealNeverFails ==
    [][/\ (pc.seal.at = "idle" /\ pc'.seal.at = "idle" /\ last' # last) =>
             /\ lock = "write"
             /\ last'.op = "generate_seal" /\ last'.result = "None"
             /\ s' = s /\ lock' = lock
       /\ (pc.seal.at = "holding" /\ lock = "read"
             /\ ~(pc.msg.at = "holding" /\ pc.msg.tag = 0)) =>
             (pc'.msg.at = "lock_failed" => pc.msg.at = "lock_failed")
      ]_vars

====
